---- MODULE Spec2Model ----
(***************************************************************************)
(* Model of scripts/revenue_analyzer.py: RevenueCycleAnalyzer.             *)
(*                                                                         *)
(* The analyzer issues fixed SQL queries against four external tables and  *)
(* formats the answers.  The tables are the environment: Init draws their  *)
(* content from small sets.  Each query is an operator that computes what  *)
(* PostgreSQL computes for it (three-valued logic, NULL-skipping           *)
(* aggregates, NULLIF, division by zero as an error), each method of the   *)
(* class is an action or an operator built from those.                     *)
(*                                                                         *)
(* Units.  Dates are day numbers.  Amounts are whole currency units.       *)
(* A value produced by ROUND(x, 2) is kept as the integer 100 * x, one     *)
(* produced by ROUND(x, 1) as 10 * x.  NUMERIC division is modelled as     *)
(* exact followed by the one ROUND the query applies.                      *)
(***************************************************************************)
EXTENDS Integers, Sequences, FiniteSets

VARIABLES
    claims,         \* table claims: sequence of rows
    denials,        \* table denials: sequence of rows
    encounters,     \* table encounters: sequence of rows
    payers,         \* table payers: sequence of rows
    payer_metrics,  \* rows of the payer_metrics CTE (one per payer)
    start_date,     \* report window, day numbers
    end_date,
    clock,          \* datetime.now(), in seconds
    pc,             \* position of the program
    connection,     \* self.connection: "None", "open" or "closed"
    metrics,        \* what calculate_revenue_metrics returned
    patterns,       \* what analyze_denial_patterns returned
    leakage,        \* what identify_revenue_leakage returned
    scorecards,     \* what payer_performance_analysis returned
    summary,        \* the text generate_executive_summary returned
    raised,         \* the exception that left the current call ("none" if none)
    trail,          \* the steps executed so far, in order
    output,         \* texts printed and written by main
    history         \* summaries of the completed runs

vars == <<claims, denials, encounters, payers, payer_metrics, start_date, end_date,
          clock, pc, connection, metrics, patterns, leakage, scorecards,
          summary, raised, trail, output, history>>

(***************************************************************************)
(* Bounds of the model.                                                    *)
(***************************************************************************)
MaxClaims == 2

\* CURRENT_DATE of the database session, a day number.
Today == 100

(***************************************************************************)
(* SQL values.  A nullable number is a record, so that NULL and numbers    *)
(* compare.                                                                *)
(***************************************************************************)
NULL == [isnull |-> TRUE, v |-> 0]

Val(n) == [isnull |-> FALSE, v |-> n]

IsNull(x) == x.isnull

\* COALESCE(x, d)
Coalesce(x, d) == IF x.isnull THEN d ELSE x.v

\* NULLIF(x, 0)
NullIfZero(x) == IF x.isnull \/ x.v = 0 THEN NULL ELSE x

\* Integer nearest to n / d, ties away from zero, as NUMERIC ROUND does.
RoundDiv(n, d) ==
    LET sn == IF d < 0 THEN -n ELSE n
        sd == IF d < 0 THEN -d ELSE d
    IN  IF sn >= 0 THEN (2 * sn + sd) \div (2 * sd)
        ELSE -((2 * (-sn) + sd) \div (2 * sd))

RECURSIVE SqlSum(_)
\* SUM(x): NULL over no non-NULL input, else the sum of the non-NULL inputs.
SqlSum(xs) ==
    IF xs = <<>> THEN NULL
    ELSE LET rest == SqlSum(Tail(xs))
             x == Head(xs)
         IN  IF x.isnull THEN rest
             ELSE IF rest.isnull THEN x
             ELSE Val(x.v + rest.v)

RECURSIVE SqlCount(_)
\* COUNT(x): the number of non-NULL inputs.
SqlCount(xs) ==
    IF xs = <<>> THEN 0
    ELSE (IF Head(xs).isnull THEN 0 ELSE 1) + SqlCount(Tail(xs))

\* The rows of table t that satisfy P, in table order.
Where(t, P(_)) == SelectSeq(t, P)

\* One column of a row sequence.
Column(t, F(_)) == [i \in 1..Len(t) |-> F(t[i])]

\* COUNT(DISTINCT id) over rows.
CountDistinct(t, F(_)) == Cardinality({F(t[i]) : i \in 1..Len(t)})

\* PctRound2 with the operands of the division exchanged.
PctRound2_Swapped(num, den) ==
    LET d == NullIfZero(num)
    IN  IF den.isnull \/ d.isnull THEN NULL
        ELSE Val(RoundDiv(den.v * 10000, d.v))

\* ROUND((num / NULLIF(den, 0)) * 100, 2), as 100 * the percentage.
PctRound2(num, den) ==
    LET d == NullIfZero(den)
    IN  IF num.isnull \/ d.isnull THEN NULL
        ELSE Val(RoundDiv(num.v * 10000, d.v))

\* AVG(x) kept to `scale` units per one: NULL over no non-NULL input.
SqlAvg(xs, scale) ==
    LET s == SqlSum(xs)
    IN  IF s.isnull THEN NULL ELSE Val(RoundDiv(s.v * scale, SqlCount(xs)))

(***************************************************************************)
(* Python values as pandas hands them over.  read_sql_query turns a column *)
(* that holds only NULLs into an object column of None, and the NULLs of a *)
(* column that also holds numbers into NaN.                                *)
(***************************************************************************)
PyNone == [k |-> "None", v |-> 0]

PyNaN == [k |-> "nan", v |-> 0]

PyNum(n) == [k |-> "num", v |-> n]

\* A DataFrame column from a SQL result column.
FrameColumn(col) ==
    LET allnull == \A i \in 1..Len(col) : col[i].isnull
    IN  [i \in 1..Len(col) |->
            IF col[i].isnull THEN (IF allnull THEN PyNone ELSE PyNaN)
            ELSE PyNum(col[i].v)]

(***************************************************************************)
(* execute_query: pd.read_sql_query either returns the frame or raises,    *)
(* and execute_query logs and re-raises.  A query answer is                *)
(* [error, rows]; error is "none" or the name of the database error.       *)
(***************************************************************************)
Answer(rows) == [error |-> "none", rows |-> rows]

Failure(e) == [error |-> e, rows |-> <<>>]

(***************************************************************************)
(* calculate_revenue_metrics                                               *)
(***************************************************************************)
AgedDays == 90

DaysPerYear == 365

IsOpen(c) == c.status \notin {"PAID", "WRITTEN_OFF"}

\* charge_amount - COALESCE(paid_amount, 0)
Outstanding(c) == c.charge_amount - Coalesce(c.paid_amount, 0)

\* CTE claim_summary: an aggregate without GROUP BY, so exactly one row.
ClaimSummary(t, s, e) ==
    LET InWindow(c) == c.submission_date >= s /\ c.submission_date <= e
        w == Where(t, InWindow)
        IsPaid(c) == c.status = "PAID"
        IsDenied(c) == c.status = "DENIED"
        Id(c) == c.claim_id
        Charge(c) == Val(c.charge_amount)
        Allowed(c) == c.allowed_amount
        Paid(c) == c.paid_amount
        Adjustment(c) == c.adjustment_amount
        DaysToPay(c) == IF c.payment_date.isnull THEN NULL
                        ELSE Val(c.payment_date.v - c.submission_date)
    IN  [total_claims |-> CountDistinct(w, Id),
         paid_claims |-> CountDistinct(Where(w, IsPaid), Id),
         denied_claims |-> CountDistinct(Where(w, IsDenied), Id),
         total_charges |-> SqlSum(Column(w, Charge)),
         total_allowed |-> SqlSum(Column(w, Allowed)),
         total_payments |-> SqlSum(Column(w, Paid)),
         total_adjustments |-> SqlSum(Column(w, Adjustment)),
         avg_days_to_payment |-> SqlAvg(Column(w, DaysToPay), 100)]

\* CTE ar_summary: every open claim, whatever the window; one row.
ArSummary(t) ==
    LET open == Where(t, IsOpen)
        Out(c) == Val(Outstanding(c))
        OutOver90(c) == IF Today - c.submission_date > AgedDays
                        THEN Val(Outstanding(c)) ELSE Val(0)
    IN  [total_ar |-> SqlSum(Column(open, Out)),
         ar_over_90 |-> SqlSum(Column(open, OutOver90))]

\* ROUND(total_ar / ((total_payments * 365.0) / (DATE end - DATE start)), 2):
\* no NULLIF guards either division.  An operator with a NULL argument
\* yields NULL, but only after its arguments were evaluated.
DaysInAr(total_ar, total_payments, s, e) ==
    LET days == e - s
    IN  IF total_payments.isnull THEN Answer(<<NULL>>)
        ELSE IF days = 0 THEN Failure("division_by_zero")
        ELSE IF total_ar.isnull THEN Answer(<<NULL>>)
        ELSE IF total_payments.v = 0 THEN Failure("division_by_zero")
        ELSE Answer(<<Val(RoundDiv(total_ar.v * days * 100,
                                   total_payments.v * DaysPerYear))>>)

\* The KPI query: claim_summary cross-joined with ar_summary.
MetricsQuery(t, s, e) ==
    LET cs == ClaimSummary(t, s, e)
        ar == ArSummary(t)
        dia == DaysInAr(ar.total_ar, cs.total_payments, s, e)
    IN  IF dia.error # "none" THEN Failure(dia.error)
        ELSE Answer(<<
            [total_claims |-> Val(cs.total_claims),
             paid_claims |-> Val(cs.paid_claims),
             denied_claims |-> Val(cs.denied_claims),
             total_charges |-> cs.total_charges,
             total_allowed |-> cs.total_allowed,
             total_payments |-> cs.total_payments,
             total_adjustments |-> cs.total_adjustments,
             avg_days_to_payment |-> cs.avg_days_to_payment,
             total_ar |-> ar.total_ar,
             ar_over_90 |-> ar.ar_over_90,
             clean_claim_rate |->
                 PctRound2(Val(cs.paid_claims), Val(cs.total_claims)),
             denial_rate |->
                 PctRound2(Val(cs.denied_claims), Val(cs.total_claims)),
             net_collection_rate |->
                 PctRound2(cs.total_payments, cs.total_allowed),
             gross_collection_rate |->
                 PctRound2(cs.total_payments, cs.total_charges),
             ar_over_90_pct |-> PctRound2(ar.ar_over_90, ar.total_ar),
             days_in_ar |-> dia.rows[1]]>>)

\* result.iloc[0].to_dict(): the one row as Python values.
RowToDict(row) ==
    [f \in DOMAIN row |-> FrameColumn(<<row[f]>>)[1]]

\* calculate_revenue_metrics(start_date, end_date) on an answered query:
\* [kind |-> "empty"] with a warning, or the mapping.
MetricsOf(answer) ==
    IF Len(answer.rows) = 0
    THEN [kind |-> "empty", warned |-> TRUE, m |-> <<>>]
    ELSE [kind |-> "mapping", warned |-> FALSE, m |-> RowToDict(answer.rows[1])]


(***************************************************************************)
(* ORDER BY key DESC.  PostgreSQL puts NULLs first in a descending order;  *)
(* rows with equal keys keep the order the rows had.                       *)
(***************************************************************************)
\* Row a must come before row b.
Precedes(a, b, key) ==
    \/ a[key].isnull /\ ~b[key].isnull
    \/ ~a[key].isnull /\ ~b[key].isnull /\ a[key].v > b[key].v

\* Sorted rows with x put behind every row it does not precede.
InsertDesc(x, rows, key) ==
    LET ahead == {j \in 1..Len(rows) : Precedes(x, rows[j], key)}
        at == IF ahead = {} THEN Len(rows) + 1
              ELSE CHOOSE j \in ahead : \A k \in ahead : j <= k
    IN  SubSeq(rows, 1, at - 1) \o <<x>> \o SubSeq(rows, at, Len(rows))

RECURSIVE OrderByDesc(_, _)
OrderByDesc(rows, key) ==
    IF rows = <<>> THEN <<>>
    ELSE InsertDesc(rows[Len(rows)],
                    OrderByDesc(SubSeq(rows, 1, Len(rows) - 1), key), key)

\* The DataFrame of a query answer: the columns named in `nullable` are
\* converted as FrameColumn does, the others are kept.
Frame(rows, nullable) ==
    [i \in 1..Len(rows) |->
        [f \in DOMAIN rows[i] |->
            IF f \in nullable
            THEN LET F(r) == r[f] IN FrameColumn(Column(rows, F))[i]
            ELSE rows[i][f]]]

(***************************************************************************)
(* payer_performance_analysis.  The payer_metrics CTE aggregates the       *)
(* claims of the last 12 months per payer; its rows are the input here.    *)
(* Comparisons are three-valued: "T", "F" or "U" (unknown, on NULL).       *)
(***************************************************************************)
MinPayerClaims == 100

Ge3(x, n) == IF x.isnull THEN "U" ELSE IF x.v >= n THEN "T" ELSE "F"

Le3(x, n) == IF x.isnull THEN "U" ELSE IF x.v <= n THEN "T" ELSE "F"

And3(a, b) ==
    IF a = "F" \/ b = "F" THEN "F"
    ELSE IF a = "T" /\ b = "T" THEN "T"
    ELSE "U"

\* The CASE with the Good and Fair branches in the wrong order.
PerformanceRating_FairFirst(rr, dr, days) ==
    IF And3(And3(Ge3(rr, 9500), Le3(dr, 500)), Le3(days, 300)) = "T"
    THEN "Excellent"
    ELSE IF And3(Ge3(rr, 7500), Le3(dr, 1500)) = "T" THEN "Fair"
    ELSE IF And3(Ge3(rr, 8500), Le3(dr, 1000)) = "T" THEN "Good"
    ELSE "Poor"

\* CASE ... END AS performance_rating: the first WHEN that is true.
PerformanceRating(rr, dr, days) ==
    IF And3(And3(Ge3(rr, 9500), Le3(dr, 500)), Le3(days, 300)) = "T"
    THEN "Excellent"
    ELSE IF And3(Ge3(rr, 8500), Le3(dr, 1000)) = "T" THEN "Good"
    ELSE IF And3(Ge3(rr, 7500), Le3(dr, 1500)) = "T" THEN "Fair"
    ELSE "Poor"

\* One row of the outer SELECT.
Scorecard(p) ==
    LET rr == PctRound2(p.total_payments, p.total_allowed)
        dr == PctRound2(Val(p.denials), Val(p.total_claims))
    IN  [payer_name |-> p.payer_name,
         payer_type |-> p.payer_type,
         total_claims |-> p.total_claims,
         total_payments |-> p.total_payments,
         reimbursement_rate |-> rr,
         denial_rate |-> dr,
         clean_claim_rate |-> PctRound2(Val(p.clean_claims), Val(p.total_claims)),
         avg_days_to_payment |-> p.avg_days_to_payment,
         performance_rating |-> PerformanceRating(rr, dr, p.avg_days_to_payment)]

PayerQuery(pm) ==
    LET Enough(p) == p.total_claims >= MinPayerClaims
        kept == Where(pm, Enough)
    IN  Answer(OrderByDesc([i \in 1..Len(kept) |-> Scorecard(kept[i])],
                           "total_payments"))

ScorecardNullable ==
    {"total_payments", "reimbursement_rate", "denial_rate",
     "clean_claim_rate", "avg_days_to_payment"}

\* payer_performance_analysis() on an answered query.
PayerPerformanceAnalysis(pm) == Frame(PayerQuery(pm).rows, ScorecardNullable)

(***************************************************************************)
(* analyze_denial_patterns                                                 *)
(***************************************************************************)
MinDenialCount == 5

DefaultLookbackMonths == 6

\* CURRENT_DATE - INTERVAL 'n months', a month taken as 30 days.
MonthsAgo(n) == Today - 30 * n

RECURSIVE Flatten(_)
Flatten(ss) == IF ss = <<>> THEN <<>> ELSE Head(ss) \o Flatten(Tail(ss))

\* denials d JOIN claims c ON d.claim_id = c.claim_id
\*           JOIN payers p ON c.payer_id = p.payer_id
\* One row per matching (d, c, p): a claim_id or payer_id held by several
\* rows repeats the denial.
DenialJoin(dt, ct, pt) ==
    LET PayersOf(c) == LET M(p) == p.payer_id = c.payer_id IN SelectSeq(pt, M)
        ClaimsOf(d) == LET M(c) == c.claim_id = d.claim_id IN SelectSeq(ct, M)
        RowsOfClaim(d, c) ==
            LET ps == PayersOf(c)
            IN  [k \in 1..Len(ps) |-> [d |-> d, c |-> c, p |-> ps[k]]]
        RowsOfDenial(d) ==
            LET cs == ClaimsOf(d)
            IN  Flatten([j \in 1..Len(cs) |-> RowsOfClaim(d, cs[j])])
    IN  Flatten([i \in 1..Len(dt) |-> RowsOfDenial(dt[i])])

GroupKey(r) ==
    <<r.d.denial_category, r.d.denial_reason_code, r.d.denial_reason_description>>

RECURSIVE GroupKeys(_)
\* The distinct keys of the rows, in order of first appearance.
GroupKeys(rows) ==
    IF rows = <<>> THEN <<>>
    ELSE LET before == GroupKeys(SubSeq(rows, 1, Len(rows) - 1))
             key == GroupKey(rows[Len(rows)])
         IN  IF \E i \in 1..Len(before) : before[i] = key THEN before
             ELSE Append(before, key)

\* The select list over the rows of one group.
DenialPattern(key, g) ==
    LET DenialId(r) == r.d.denial_id
        Denied(r) == Val(r.d.denied_amount)
        Resolved(r) == IF r.d.work_status = "RESOLVED" THEN Val(1) ELSE NULL
        Won(r) == IF r.d.resolution_type = "APPEALED_WON" THEN Val(1) ELSE NULL
        Appealed(r) == IF r.d.resolution_type \in {"APPEALED_WON", "APPEALED_LOST"}
                       THEN Val(1) ELSE NULL
        Recovered(r) == IF r.d.resolution_type = "APPEALED_WON"
                        THEN r.d.recovered_amount ELSE Val(0)
        Preventable(r) == IF r.d.preventable THEN Val(1) ELSE NULL
    IN  [denial_category |-> key[1],
         denial_reason_code |-> key[2],
         denial_reason_description |-> key[3],
         denial_count |-> Val(CountDistinct(g, DenialId)),
         total_denied |-> SqlSum(Column(g, Denied)),
         avg_denied |-> SqlAvg(Column(g, Denied), 100),
         resolved |-> Val(SqlCount(Column(g, Resolved))),
         appeals_won |-> Val(SqlCount(Column(g, Won))),
         amount_recovered |-> SqlSum(Column(g, Recovered)),
         appeal_success_rate |->
             PctRound2(Val(SqlCount(Column(g, Won))),
                       Val(SqlCount(Column(g, Appealed)))),
         preventable_count |-> Val(SqlCount(Column(g, Preventable))),
         preventable_pct |->
             PctRound2(Val(SqlCount(Column(g, Preventable))), Val(Len(g))),
         top_payers |-> {g[i].p.payer_name : i \in 1..Len(g)}]

\* HAVING COUNT(d.denial_id) >= 5: the joined rows of the group are
\* counted, not the distinct denials that denial_count reports.
Having(g) == Len(g) >= MinDenialCount

DenialQuery(dt, ct, pt, months) ==
    LET Recent(r) == r.d.denial_date >= MonthsAgo(months)
        rows == Where(DenialJoin(dt, ct, pt), Recent)
        keys == GroupKeys(rows)
        Group(key) == LET In(r) == GroupKey(r) = key IN SelectSeq(rows, In)
        HavingKey(key) == Having(Group(key))
        kept == SelectSeq(keys, HavingKey)
    IN  Answer(OrderByDesc(
            [i \in 1..Len(kept) |-> DenialPattern(kept[i], Group(kept[i]))],
            "total_denied"))

PatternNullable ==
    {"denial_count", "total_denied", "avg_denied", "resolved", "appeals_won",
     "amount_recovered", "appeal_success_rate", "preventable_count",
     "preventable_pct"}

\* analyze_denial_patterns(lookback_months) on an answered query.
AnalyzeDenialPatterns(dt, ct, pt, months) ==
    Frame(DenialQuery(dt, ct, pt, months).rows, PatternNullable)

(***************************************************************************)
(* identify_revenue_leakage                                                *)
(***************************************************************************)
UnbilledMaxDays == 90

UnbilledMinDays == 7

UnderpaymentDays == 90

VarianceFloor == 10

Abs(n) == IF n < 0 THEN -n ELSE n

\* WHERE of the unbilled encounters query.
UnbilledSelected(e) ==
    /\ e.encounter_date >= Today - UnbilledMaxDays
    /\ e.encounter_date <= Today - UnbilledMinDays
    /\ ~e.claim_generated

\* CASE ... END AS bottleneck: the first WHEN that is true.
Bottleneck(e) ==
    IF ~e.documentation_complete THEN "Missing Documentation"
    ELSE IF ~e.coding_complete THEN "Coding Incomplete"
    ELSE IF ~e.charge_entered THEN "Charges Not Entered"
    ELSE IF ~e.claim_generated THEN "Claim Not Generated"
    ELSE "NULL"

UnbilledQuery(et) ==
    LET sel == Where(et, UnbilledSelected)
        Row(e) == [encounter_id |-> e.encounter_id,
                   patient_id |-> e.patient_id,
                   provider_id |-> e.provider_id,
                   encounter_date |-> e.encounter_date,
                   expected_charge |-> Val(e.expected_charge),
                   days_unbilled |-> Today - e.encounter_date,
                   bottleneck |-> Bottleneck(e)]
    IN  Answer(OrderByDesc([i \in 1..Len(sel) |-> Row(sel[i])], "expected_charge"))

\* (allowed_amount - COALESCE(patient_responsibility, 0)) - paid_amount
Variance(c) ==
    IF c.allowed_amount.isnull \/ c.paid_amount.isnull THEN NULL
    ELSE Val((c.allowed_amount.v - Coalesce(c.patient_responsibility, 0))
             - c.paid_amount.v)

\* WHERE of the old AR query.
OldArSelected(c) ==
    /\ IsOpen(c)
    /\ Today - c.submission_date > AgedDays
    /\ Outstanding(c) > 0

\* WHERE of the payment_variance CTE and of the select over it.
UnderpaymentSelected(c) ==
    /\ c.status = "PAID"
    /\ ~c.payment_date.isnull
    /\ c.payment_date.v >= Today - UnderpaymentDays
    /\ ~c.allowed_amount.isnull
    /\ ~Variance(c).isnull
    /\ Abs(Variance(c).v) > VarianceFloor

\* claims c JOIN payers p ON c.payer_id = p.payer_id
ClaimPayerJoin(ct, pt) ==
    LET RowsOf(c) ==
            LET M(p) == p.payer_id = c.payer_id
                ps == SelectSeq(pt, M)
            IN  [k \in 1..Len(ps) |-> [c |-> c, p |-> ps[k]]]
    IN  Flatten([i \in 1..Len(ct) |-> RowsOf(ct[i])])

UnderpaymentQuery(ct, pt) ==
    LET Sel(r) == UnderpaymentSelected(r.c)
        sel == Where(ClaimPayerJoin(ct, pt), Sel)
        Expected(c) == c.allowed_amount.v - Coalesce(c.patient_responsibility, 0)
        Row(r) == [claim_id |-> r.c.claim_id,
                   payer_name |-> r.p.payer_name,
                   submission_date |-> r.c.submission_date,
                   allowed_amount |-> r.c.allowed_amount,
                   patient_responsibility |-> r.c.patient_responsibility,
                   paid_amount |-> r.c.paid_amount,
                   expected_payment |-> Val(Expected(r.c)),
                   variance |-> Variance(r.c),
                   variance_pct |-> PctRound2(Variance(r.c), Val(Expected(r.c))),
                   abs_variance |-> Val(Abs(Variance(r.c).v))]
        sorted == OrderByDesc([i \in 1..Len(sel) |-> Row(sel[i])], "abs_variance")
    IN  Answer([i \in 1..Len(sorted) |->
                   [f \in DOMAIN sorted[i] \ {"abs_variance"} |-> sorted[i][f]]])

OldArQuery(ct) ==
    LET sel == Where(ct, OldArSelected)
        Row(c) == [claim_id |-> c.claim_id,
                   payer_id |-> c.payer_id,
                   submission_date |-> c.submission_date,
                   outstanding |-> Val(Outstanding(c)),
                   days_outstanding |-> Today - c.submission_date,
                   status |-> c.status]
    IN  Answer(OrderByDesc([i \in 1..Len(sel) |-> Row(sel[i])], "outstanding"))

\* identify_revenue_leakage() on three answered queries: the dict of frames.
IdentifyRevenueLeakage(et, ct, pt) ==
    [unbilled_encounters |-> Frame(UnbilledQuery(et).rows, {"expected_charge"}),
     underpayments |->
         Frame(UnderpaymentQuery(ct, pt).rows,
               {"allowed_amount", "patient_responsibility", "paid_amount",
                "expected_payment", "variance", "variance_pct"}),
     old_ar |-> Frame(OldArQuery(ct).rows, {"outstanding"})]

RECURSIVE PandasSum(_)
\* Series.sum(): None and NaN are skipped, nothing sums to 0.
PandasSum(col) ==
    IF col = <<>> THEN 0
    ELSE (IF Head(col).k = "num" THEN Head(col).v ELSE 0) + PandasSum(Tail(col))

SumOf(frame, f) == LET F(r) == r[f] IN PandasSum(Column(frame, F))

\* The total with the variances taken by magnitude.
TotalLeakage_AbsVariance(l) ==
    LET A(r) == PyNum(Abs(r.variance.v))
    IN  SumOf(l.unbilled_encounters, "expected_charge")
        + PandasSum(Column(l.underpayments, A))
        + SumOf(l.old_ar, "outstanding")

\* The sum of the three column sums, as logged and as printed.
TotalLeakage(l) ==
    SumOf(l.unbilled_encounters, "expected_charge")
    + SumOf(l.underpayments, "variance")
    + SumOf(l.old_ar, "outstanding")

(***************************************************************************)
(* Report text.  The summary is a sequence of lines [label, vals]; vals    *)
(* are the rendered replacement fields of the line, left to right.  A      *)
(* rendered number is its digits: the integer v with dp decimal places.    *)
(* Formatting None with a format spec raises TypeError; NaN prints "nan".  *)
(* Binary floating-point error is not modelled.                            *)
(***************************************************************************)
TopN == 5

Fixed(v, dp) == [k |-> "fixed", v |-> v, dp |-> dp, s |-> ""]

Str(s) == [k |-> "str", v |-> 0, dp |-> 0, s |-> s]

Nan == [k |-> "nan", v |-> 0, dp |-> 0, s |-> "nan"]

TypeError == [k |-> "TypeError", v |-> 0, dp |-> 0, s |-> ""]

Pow10(dp) == IF dp = 0 THEN 1 ELSE IF dp = 1 THEN 10 ELSE 100

\* f"{x:,.<dp>f}" and f"{x:.<dp>f}" of a value kept as scale * x.
FormatFixed(py, scale, dp) ==
    IF py.k = "None" THEN TypeError
    ELSE IF py.k = "nan" THEN Nan
    ELSE Fixed(RoundDiv(py.v * Pow10(dp), scale), dp)

\* f"{x:,}" of a count.
FormatCount(py) ==
    IF py.k = "None" THEN TypeError
    ELSE IF py.k = "nan" THEN Nan
    ELSE Fixed(py.v, 0)

\* f"{x}": str(x), which formats anything.
FormatPlain(py) ==
    IF py.k = "None" THEN Str("None")
    ELSE IF py.k = "nan" THEN Nan
    ELSE Fixed(py.v, 0)

Line(label, vals) == [label |-> label, vals |-> vals]

\* metrics.get(key, 0): the default only when the key is absent.
Get(mt, key) == IF mt.kind = "mapping" THEN mt.m[key] ELSE PyNum(0)

\* The header with the run time in the period line.
HeaderLines_PeriodFromClock(s, e, now) ==
    <<Line("Period", <<Fixed(now, 0), Fixed(e, 0)>>),
      Line("Generated", <<Fixed(now, 0)>>)>>

\* Period: {start_date} to {end_date} / Generated: {datetime.now()...}
HeaderLines(s, e, now) ==
    <<Line("Period", <<Fixed(s, 0), Fixed(e, 0)>>),
      Line("Generated", <<Fixed(now, 0)>>)>>

KpiLines(mt) ==
    <<Line("Total Claims Submitted", <<FormatCount(Get(mt, "total_claims"))>>),
      Line("Claims Paid", <<FormatCount(Get(mt, "paid_claims"))>>),
      Line("Claims Denied", <<FormatCount(Get(mt, "denied_claims"))>>),
      Line("Total Charges", <<FormatFixed(Get(mt, "total_charges"), 1, 2)>>),
      Line("Total Collections", <<FormatFixed(Get(mt, "total_payments"), 1, 2)>>),
      Line("Net Collection Rate",
           <<FormatFixed(Get(mt, "net_collection_rate"), 100, 1)>>),
      Line("Gross Collection Rate",
           <<FormatFixed(Get(mt, "gross_collection_rate"), 100, 1)>>),
      Line("Clean Claim Rate", <<FormatFixed(Get(mt, "clean_claim_rate"), 100, 1)>>),
      Line("Denial Rate", <<FormatFixed(Get(mt, "denial_rate"), 100, 1)>>),
      Line("Average Days to Payment",
           <<FormatFixed(Get(mt, "avg_days_to_payment"), 100, 1)>>),
      Line("Total AR", <<FormatFixed(Get(mt, "total_ar"), 1, 2)>>),
      Line("AR > 90 Days",
           <<FormatFixed(Get(mt, "ar_over_90"), 1, 2),
             FormatFixed(Get(mt, "ar_over_90_pct"), 100, 1)>>),
      Line("Days in AR", <<FormatFixed(Get(mt, "days_in_ar"), 100, 1)>>)>>

\* denials.head(5)
Head5(frame) == SubSeq(frame, 1, IF Len(frame) < TopN THEN Len(frame) ELSE TopN)

DenialLines(frame) ==
    LET top == Head5(frame)
    IN  [i \in 1..Len(top) |->
            Line("Denial",
                 <<Fixed(i, 0),
                   Str(top[i].denial_category),
                   Str(top[i].denial_reason_description),
                   FormatPlain(top[i].denial_count),
                   FormatFixed(top[i].total_denied, 1, 2),
                   FormatFixed(top[i].appeal_success_rate, 100, 1),
                   FormatFixed(top[i].preventable_pct, 100, 1)>>)]

LeakageLines(l) ==
    <<Line("Unbilled Encounters", <<Fixed(Len(l.unbilled_encounters), 0)>>),
      Line("Potential Revenue",
           <<FormatFixed(PyNum(SumOf(l.unbilled_encounters, "expected_charge")), 1, 2)>>),
      Line("Underpayments", <<Fixed(Len(l.underpayments), 0)>>),
      Line("Variance Amount",
           <<FormatFixed(PyNum(SumOf(l.underpayments, "variance")), 1, 2)>>),
      Line("Old AR", <<Fixed(Len(l.old_ar), 0)>>),
      Line("Outstanding Amount",
           <<FormatFixed(PyNum(SumOf(l.old_ar, "outstanding")), 1, 2)>>),
      Line("TOTAL LEAKAGE", <<FormatFixed(PyNum(TotalLeakage(l)), 1, 2)>>)>>

PayerLines(frame) ==
    LET top == Head5(frame)
    IN  [i \in 1..Len(top) |->
            Line("Payer",
                 <<Fixed(i, 0),
                   Str(top[i].payer_name),
                   Str(top[i].payer_type),
                   FormatFixed(top[i].total_payments, 1, 2),
                   Str(top[i].performance_rating),
                   FormatFixed(top[i].denial_rate, 100, 1),
                   FormatFixed(top[i].avg_days_to_payment, 10, 0)>>)]

\* The f-strings of generate_executive_summary, in order.
SummaryLines(mt, dn, l, py, s, e, now) ==
    HeaderLines(s, e, now) \o KpiLines(mt) \o DenialLines(dn)
    \o LeakageLines(l) \o PayerLines(py)

\* Some replacement field of the lines raised.
Raises(lines) ==
    \E i \in 1..Len(lines) :
        \E j \in 1..Len(lines[i].vals) : lines[i].vals[j].k = "TypeError"

(***************************************************************************)
(* The values left in the result variables before a call has run.          *)
(***************************************************************************)
NoMetrics == [kind |-> "none", warned |-> FALSE, m |-> <<>>]

NoRows == <<>>

NoLeakage == [unbilled_encounters |-> <<>>, underpayments |-> <<>>,
              old_ar |-> <<>>]

NoSummary == <<>>

\* An entry of the trail: a step that ran, and whether it returned.
Did(step, ok) == [step |-> step, ok |-> ok]

(***************************************************************************)
(* Table contents the checks draw from.                                    *)
(***************************************************************************)
ClaimRow(id, payer, status, charge, allowed, paid, resp, sub, paydate) ==
    [claim_id |-> id, payer_id |-> payer, status |-> status,
     charge_amount |-> charge, allowed_amount |-> allowed,
     paid_amount |-> paid, adjustment_amount |-> NULL,
     patient_responsibility |-> resp, submission_date |-> sub,
     payment_date |-> paydate]

\* Non-decreasing sequences of at most n numbers below d: one sequence per
\* multiset, the queries being aggregates over rows in no order.
Multisets(n, d) ==
    {q \in UNION {[1..k -> 0..(d - 1)] : k \in 0..n} :
        \A i \in 1..(Len(q) - 1) : q[i] <= q[i + 1]}

KpiStatuses == <<"PAID", "DENIED", "SUBMITTED">>

KpiAllowed == <<NULL, Val(0), Val(100)>>

KpiPaid == <<NULL, Val(0), Val(50), Val(150)>>

KpiSubmitted == <<Today - 100, Today - 5>>

KpiKinds == 3 * 3 * 4 * 2

\* The k-th kind of claim, with claim_id id.  A claim with a payment was
\* paid five days after submission; every charge is 100.
KpiClaim(k, id) ==
    LET paid == KpiPaid[((k \div 9) % 4) + 1]
        sub == KpiSubmitted[((k \div 36) % 2) + 1]
    IN  ClaimRow(id, 1, KpiStatuses[(k % 3) + 1], 100,
                 KpiAllowed[((k \div 3) % 3) + 1], paid, NULL, sub,
                 IF paid.isnull THEN NULL ELSE Val(sub + 5))

KpiTables ==
    {[i \in 1..Len(q) |-> KpiClaim(q[i], i)] : q \in Multisets(MaxClaims, KpiKinds)}

\* (start, end) with start <= end: one empty window, two proper ones.
KpiWindows ==
    {<<Today - 100, Today - 100>>, <<Today - 100, Today>>, <<Today - 5, Today>>}

(***************************************************************************)
(* calculate_revenue_metrics on its own: the tables and the window are     *)
(* drawn, the method is applied once.                                      *)
(***************************************************************************)
Idle ==
    /\ clock = 0
    /\ connection = "open"
    /\ patterns = NoRows
    /\ leakage = NoLeakage
    /\ scorecards = NoRows
    /\ summary = NoSummary
    /\ raised = "none"
    /\ trail = <<>>
    /\ output = <<>>
    /\ history = <<>>
    /\ metrics = NoMetrics

\* The tables and inputs a check does not use.
NoDenials == denials = <<>> /\ payers = <<>>

NoEncounters == encounters = <<>>

NoPayerMetrics == payer_metrics = <<>>

NoWindow == start_date = 0 /\ end_date = 0

KpiInit ==
    /\ claims \in KpiTables
    /\ \E w \in KpiWindows : start_date = w[1] /\ end_date = w[2]
    /\ NoDenials /\ NoEncounters /\ NoPayerMetrics
    /\ pc = "kpi"
    /\ Idle

\* The body of calculate_revenue_metrics: the answer of execute_query, then
\* the empty test, then the row as a dict.  A database error propagates.
CalculateRevenueMetrics(t, s, e) ==
    LET answer == MetricsQuery(t, s, e)
    IN  IF answer.error # "none"
        THEN [raised |-> answer.error, value |-> NoMetrics]
        ELSE [raised |-> "none", value |-> MetricsOf(answer)]

KpiCall ==
    /\ pc = "kpi"
    /\ LET r == CalculateRevenueMetrics(claims, start_date, end_date)
       IN  /\ metrics' = r.value
           /\ raised' = r.raised
    /\ pc' = "kpi_done"
    /\ trail' = Append(trail, Did("metrics", raised' = "none"))
    /\ UNCHANGED <<claims, denials, encounters, payers, payer_metrics, start_date,
                   end_date, clock, connection, patterns, leakage,
                   scorecards, summary, output, history>>

KpiNext == KpiCall

SpecKpi == KpiInit /\ [][KpiNext]_vars


(***************************************************************************)
(* Claims about calculate_revenue_metrics (checked under SpecKpi).         *)
(***************************************************************************)
KpiReturned == pc = "kpi_done" /\ raised = "none"

Positive(py) == py.k = "num" /\ py.v > 0

\* A rate, when it is a number, is a percentage in [0, 100].
Percentage(py) == py.k = "num" => (0 <= py.v /\ py.v <= 10000)

WindowClaims ==
    {i \in 1..Len(claims) : /\ claims[i].submission_date >= start_date
                            /\ claims[i].submission_date <= end_date}

PaidWithinAllowed ==
    \A i \in WindowClaims :
        /\ claims[i].allowed_amount.isnull \/ claims[i].allowed_amount.v >= 0
        /\ ~claims[i].paid_amount.isnull =>
               /\ ~claims[i].allowed_amount.isnull
               /\ 0 <= claims[i].paid_amount.v
               /\ claims[i].paid_amount.v <= claims[i].allowed_amount.v

\* No payment in the window exceeds the charge of the claim.
PaidWithinCharge ==
    \A i \in WindowClaims :
        /\ claims[i].charge_amount >= 0
        /\ ~claims[i].paid_amount.isnull =>
               /\ 0 <= claims[i].paid_amount.v
               /\ claims[i].paid_amount.v <= claims[i].charge_amount

\* No open claim is overpaid.
OpenNotOverpaid ==
    \A i \in 1..Len(claims) :
        claims[i].status \notin {"PAID", "WRITTEN_OFF"} =>
            claims[i].charge_amount >=
                (IF claims[i].paid_amount.isnull THEN 0
                 ELSE claims[i].paid_amount.v)

C4_NoDivisionFault ==
    pc = "kpi_done" =>
        /\ raised # "division_by_zero"
        /\ (\/ start_date = end_date
            \/ ClaimSummary(claims, start_date, end_date).total_payments = Val(0))
           => /\ metrics.kind = "mapping"
              /\ metrics.m.days_in_ar.k # "num"

\* C5 as stated: with no claim submitted in the window the method returns
\* the empty mapping and logs a warning.
C5_EmptyWindowEmptyMapping ==
    (pc = "kpi_done" /\ WindowClaims = {}) =>
        /\ raised = "none"
        /\ metrics.kind = "empty"
        /\ metrics.warned


(***************************************************************************)
(* payer_performance_analysis on its own: one payer_metrics row is drawn,  *)
(* the method is applied once.                                             *)
(***************************************************************************)
PayerRow(name, n, allowed, payments, den, days, clean) ==
    [payer_id |-> 1, payer_name |-> name, payer_type |-> "Commercial",
     total_claims |-> n, total_charges |-> Val(200), total_allowed |-> allowed,
     total_payments |-> payments, denials |-> den,
     avg_days_to_payment |-> days, clean_claims |-> clean]

RatingPayments ==
    {NULL, Val(74), Val(75), Val(80), Val(84), Val(85), Val(90), Val(94),
     Val(95), Val(96), Val(120)}

RatingAllowed == {NULL, Val(0), Val(100)}

RatingDenials == {0, 4, 5, 6, 8, 10, 11, 15, 16, 20}

\* ROUND(AVG(days), 1), as 10 * days.
RatingDays == {NULL, Val(200), Val(300), Val(301), Val(450)}

PayerInit ==
    /\ \E n \in {99, 100}, a \in RatingAllowed, p \in RatingPayments,
          d \in RatingDenials, days \in RatingDays :
          payer_metrics = <<PayerRow("Acme", n, a, p, d, days, 0)>>
    /\ claims = <<>>
    /\ NoDenials /\ NoEncounters /\ NoWindow
    /\ pc = "payer"
    /\ Idle

PayerCall ==
    /\ pc = "payer"
    /\ scorecards' = PayerPerformanceAnalysis(payer_metrics)
    /\ pc' = "payer_done"
    /\ trail' = Append(trail, Did("payers", TRUE))
    /\ UNCHANGED <<claims, denials, encounters, payers, payer_metrics, start_date,
                   end_date, clock, connection, metrics, patterns, leakage,
                   summary, raised, output, history>>

PayerNext == PayerCall

SpecPayer == PayerInit /\ [][PayerNext]_vars

(***************************************************************************)
(* Claims about payer_performance_analysis (checked under SpecPayer).      *)
(***************************************************************************)
Defined(py) == py.k = "num"

\* The rating rules of the specification, over the values of a returned row.
RuleRating(rr, dr, days) ==
    IF /\ Defined(rr) /\ rr.v >= 9500
       /\ Defined(dr) /\ dr.v <= 500
       /\ Defined(days) /\ days.v <= 300
    THEN "Excellent"
    ELSE IF Defined(rr) /\ rr.v >= 8500 /\ Defined(dr) /\ dr.v <= 1000
    THEN "Good"
    ELSE IF Defined(rr) /\ rr.v >= 7500 /\ Defined(dr) /\ dr.v <= 1500
    THEN "Fair"
    ELSE "Poor"

\* C7: every returned payer row carries the rating of the first matching
\* rule, a function of (reimbursement_rate, denial_rate,
\* avg_days_to_payment); (96, 4, 20) is Excellent, (90, 8, any) Good,
\* (80, 20, any) Poor; an undefined rate or delay is never Excellent.
C7_RatingByRules ==
    pc = "payer_done" =>
        \A i \in 1..Len(scorecards) :
            LET r == scorecards[i]
            IN  /\ r.performance_rating =
                       RuleRating(r.reimbursement_rate, r.denial_rate,
                                  r.avg_days_to_payment)
                /\ (/\ r.reimbursement_rate = PyNum(9600)
                    /\ r.denial_rate = PyNum(400)
                    /\ r.avg_days_to_payment = PyNum(200))
                   => r.performance_rating = "Excellent"
                /\ (r.reimbursement_rate = PyNum(9000) /\ r.denial_rate = PyNum(800))
                   => r.performance_rating = "Good"
                /\ (r.reimbursement_rate = PyNum(8000) /\ r.denial_rate = PyNum(2000))
                   => r.performance_rating = "Poor"
                /\ (~Defined(r.reimbursement_rate) \/ ~Defined(r.avg_days_to_payment))
                   => r.performance_rating # "Excellent"

\* A payer rated Fair: 80% reimbursed, 11% denied.
C7_Witness ==
    /\ pc = "payer_done"
    /\ Len(scorecards) = 1
    /\ scorecards[1].reimbursement_rate = PyNum(8000)
    /\ scorecards[1].denial_rate = PyNum(1100)
    /\ scorecards[1].performance_rating = "Fair"


(***************************************************************************)
(* analyze_denial_patterns on its own.  The denials table holds up to      *)
(* MaxPerKind denials of each of eight kinds (category, claim, amount),    *)
(* each with its own denial_id.  The claims table holds one or two rows    *)
(* for claim 1.  No schema comes with the analyzer, and its queries do not *)
(* take the ids to be keys: claim_id is counted with DISTINCT on the       *)
(* claims table alone, denial_id with DISTINCT over the joined rows.       *)
(***************************************************************************)
MaxPerKind == 2

DenialKinds == 2 * 2 * 2

\* A denial of kind k.  The denials of 30 were appealed and won.
DenialRow(k, id) ==
    LET cat == IF k % 2 = 0 THEN "Eligibility" ELSE "Coding"
        big == (k \div 4) % 2 = 1
    IN  [denial_id |-> id,
         claim_id |-> ((k \div 2) % 2) + 1,
         denial_category |-> cat,
         denial_reason_code |-> IF cat = "Coding" THEN "CO-16" ELSE "CO-27",
         denial_reason_description |-> cat,
         denied_amount |-> IF big THEN 30 ELSE 10,
         work_status |-> IF big THEN "RESOLVED" ELSE "OPEN",
         resolution_type |-> IF big THEN "APPEALED_WON" ELSE "NONE",
         recovered_amount |-> IF big THEN Val(20) ELSE NULL,
         preventable |-> ~big,
         denial_date |-> Today - 10]

RECURSIVE DenialsFrom(_, _, _)
\* The table with cnt[k] denials of each kind k >= from, ids from `id` on.
DenialsFrom(cnt, from, id) ==
    IF from >= DenialKinds THEN <<>>
    ELSE [i \in 1..cnt[from] |-> DenialRow(from, id + i - 1)]
         \o DenialsFrom(cnt, from + 1, id + cnt[from])

SimpleClaim(id, payer) ==
    ClaimRow(id, payer, "DENIED", 100, NULL, NULL, NULL, Today - 20, NULL)

DenialClaimTables ==
    {<<SimpleClaim(1, 1), SimpleClaim(2, 2)>>,
     <<SimpleClaim(1, 1), SimpleClaim(1, 1), SimpleClaim(2, 2)>>,
     <<SimpleClaim(1, 1)>>}

PayerTable ==
    <<[payer_id |-> 1, payer_name |-> "Acme", payer_type |-> "Commercial"],
      [payer_id |-> 2, payer_name |-> "Medicare", payer_type |-> "Government"]>>

DenialInit ==
    /\ \E cnt \in [0..(DenialKinds - 1) -> 0..MaxPerKind] :
          denials = DenialsFrom(cnt, 0, 1)
    /\ claims \in DenialClaimTables
    /\ payers = PayerTable
    /\ NoEncounters /\ NoPayerMetrics /\ NoWindow
    /\ pc = "denials"
    /\ Idle

DenialCall ==
    /\ pc = "denials"
    /\ patterns' = AnalyzeDenialPatterns(denials, claims, payers,
                                         DefaultLookbackMonths)
    /\ pc' = "denials_done"
    /\ trail' = Append(trail, Did("denials", TRUE))
    /\ UNCHANGED <<claims, denials, encounters, payers, payer_metrics,
                   start_date, end_date, clock, connection, metrics, leakage,
                   scorecards, summary, raised, output, history>>

DenialNext == DenialCall

SpecDenial == DenialInit /\ [][DenialNext]_vars

(***************************************************************************)
(* Claims about analyze_denial_patterns (checked under SpecDenial).        *)
(***************************************************************************)
\* C8 as stated: the returned rows are non-increasing in total_denied and
\* none reports a denial_count below 5, whatever the tables hold.
C8_OrderedAndAtLeastFive ==
    pc = "denials_done" =>
        /\ \A i, j \in 1..Len(patterns) :
               i < j => /\ patterns[i].total_denied.k = "num"
                        /\ patterns[j].total_denied.k = "num"
                        /\ patterns[i].total_denied.v >= patterns[j].total_denied.v
        /\ \A i \in 1..Len(patterns) :
               /\ patterns[i].denial_count.k = "num"
               /\ patterns[i].denial_count.v >= 5

(***************************************************************************)
(* identify_revenue_leakage on its own, with the leakage section of the    *)
(* report rendered from its result.                                        *)
(***************************************************************************)
MaxEncounters == 1

EncounterKinds == 4 * 2

EncounterDates == <<Today - 91, Today - 90, Today - 7, Today - 6>>

\* An encounter of kind k: its date, whether a claim was generated, and
\* how far the billing steps got.
EncounterRow(k, id) ==
    [encounter_id |-> id, patient_id |-> id, provider_id |-> 1,
     encounter_date |-> EncounterDates[(k % 4) + 1],
     expected_charge |-> 1000 + 500 * k,
     documentation_complete |-> k % 4 # 0,
     coding_complete |-> k % 4 \notin {0, 1},
     charge_entered |-> k % 4 = 3,
     claim_generated |-> k \div 4 = 1]

EncounterTables ==
    {[i \in 1..Len(q) |-> EncounterRow(q[i], i)] :
        q \in Multisets(MaxEncounters, EncounterKinds)}

\* <<status, allowed_amount, patient_responsibility, paid_amount>>
LeakVariants ==
    <<<<"PAID", Val(100), Val(20), Val(50)>>,
      <<"PAID", Val(100), Val(20), Val(75)>>,
      <<"PAID", Val(100), NULL, Val(150)>>,
      <<"PAID", NULL, NULL, Val(50)>>,
      <<"SUBMITTED", Val(100), Val(20), Val(50)>>,
      <<"SUBMITTED", NULL, NULL, NULL>>,
      <<"SUBMITTED", Val(100), NULL, Val(150)>>,
      <<"WRITTEN_OFF", NULL, NULL, NULL>>>>

\* <<submission_date, payment_date of a claim with a payment>>
LeakDates ==
    <<<<Today - 100, Today - 97>>, <<Today - 100, Today - 2>>,
      <<Today - 5, Today - 2>>>>

LeakKinds == 8 * 3

LeakClaim(k, id) ==
    LET x == LeakVariants[(k % 8) + 1]
        d == LeakDates[(k \div 8) + 1]
    IN  ClaimRow(id, 1, x[1], 100, x[2], x[4], x[3], d[1],
                 IF x[4].isnull THEN NULL ELSE Val(d[2]))

LeakClaimTables ==
    {[i \in 1..Len(q) |-> LeakClaim(q[i], i)] : q \in Multisets(MaxClaims, LeakKinds)}

LeakInit ==
    /\ encounters \in EncounterTables
    /\ claims \in LeakClaimTables
    /\ payers = PayerTable
    /\ denials = <<>>
    /\ NoPayerMetrics /\ NoWindow
    /\ pc = "leakage"
    /\ Idle

LeakCall ==
    /\ pc = "leakage"
    /\ leakage' = IdentifyRevenueLeakage(encounters, claims, payers)
    /\ summary' = LeakageLines(leakage')
    /\ pc' = "leakage_done"
    /\ trail' = Append(trail, Did("leakage", TRUE))
    /\ UNCHANGED <<claims, denials, encounters, payers, payer_metrics,
                   start_date, end_date, clock, connection, metrics, patterns,
                   scorecards, raised, output, history>>

LeakNext == LeakCall

SpecLeak == LeakInit /\ [][LeakNext]_vars

(***************************************************************************)
(* Claims about identify_revenue_leakage (checked under SpecLeak).         *)
(***************************************************************************)
RECURSIVE SumOver(_, _)
\* The sum of f over the finite set S.
SumOver(S, f) ==
    IF S = {} THEN 0
    ELSE LET x == CHOOSE y \in S : TRUE IN f[x] + SumOver(S \ {x}, f)

\* The rendered fields of the line with this label.
Shown(lines, label) ==
    lines[CHOOSE i \in 1..Len(lines) : lines[i].label = label].vals

\* Encounters of 7 to 90 days ago that generated no claim.
SpecUnbilled ==
    {i \in 1..Len(encounters) :
        /\ Today - encounters[i].encounter_date >= 7
        /\ Today - encounters[i].encounter_date <= 90
        /\ ~encounters[i].claim_generated}

SpecVariance ==
    [i \in 1..Len(claims) |->
        (claims[i].allowed_amount.v
         - (IF claims[i].patient_responsibility.isnull THEN 0
            ELSE claims[i].patient_responsibility.v))
        - claims[i].paid_amount.v]

\* Paid claims, paid in the last 90 days, allowed amount known, whose
\* variance is known and beyond 10 either way.
SpecUnderpaid ==
    {i \in 1..Len(claims) :
        /\ claims[i].status = "PAID"
        /\ ~claims[i].payment_date.isnull
        /\ Today - claims[i].payment_date.v <= 90
        /\ ~claims[i].allowed_amount.isnull
        /\ ~claims[i].paid_amount.isnull
        /\ (SpecVariance[i] > 10 \/ SpecVariance[i] < -10)}

SpecOutstanding ==
    [i \in 1..Len(claims) |->
        claims[i].charge_amount
        - (IF claims[i].paid_amount.isnull THEN 0 ELSE claims[i].paid_amount.v)]

\* Open claims older than 90 days with a positive balance.
SpecAged ==
    {i \in 1..Len(claims) :
        /\ claims[i].status # "PAID"
        /\ claims[i].status # "WRITTEN_OFF"
        /\ Today - claims[i].submission_date > 90
        /\ SpecOutstanding[i] > 0}

\* C9: the TOTAL LEAKAGE printed is the expected charges of the unbilled
\* encounters plus the signed variances of the underpayments plus the
\* balances of the aged AR, which is the sum of the three amounts printed
\* above it; no claim is in both the underpayments and the aged AR (the
\* rows of the claims table carry their position as claim_id here, so a
\* claim_id in both frames would be one row selected by both queries).
C9_TotalIsSumOfCategories ==
    pc = "leakage_done" =>
        LET total == Shown(summary, "TOTAL LEAKAGE")[1]
            charges == [i \in 1..Len(encounters) |-> encounters[i].expected_charge]
        IN  /\ total = Fixed(100 * (SumOver(SpecUnbilled, charges)
                                    + SumOver(SpecUnderpaid, SpecVariance)
                                    + SumOver(SpecAged, SpecOutstanding)), 2)
            /\ total.v = Shown(summary, "Potential Revenue")[1].v
                         + Shown(summary, "Variance Amount")[1].v
                         + Shown(summary, "Outstanding Amount")[1].v
            /\ {leakage.underpayments[i].claim_id :
                    i \in 1..Len(leakage.underpayments)}
               \cap {leakage.old_ar[i].claim_id : i \in 1..Len(leakage.old_ar)}
               = {}

\* All three categories are populated, one underpayment being an
\* overpayment (negative variance).
C9_Witness ==
    /\ pc = "leakage_done"
    /\ Len(leakage.unbilled_encounters) = 1
    /\ Len(leakage.old_ar) = 1
    /\ Len(leakage.underpayments) = 1
    /\ leakage.underpayments[1].variance.v < 0
    /\ Shown(summary, "TOTAL LEAKAGE")[1].v > 0


(***************************************************************************)
(* main and generate_executive_summary: the whole run.                     *)
(*                                                                         *)
(*   start    self.connect()                        (outside the try)      *)
(*   metrics  calculate_revenue_metrics             (in the try)           *)
(*   denials  analyze_denial_patterns                                      *)
(*   leakage  identify_revenue_leakage                                     *)
(*   payers   payer_performance_analysis                                   *)
(*   compose  the f-strings                                                *)
(*   finally  self.disconnect()                                            *)
(*   returned print(summary); printed: write the file; done                *)
(*   failed   an exception left main                                       *)
(*                                                                         *)
(* Any query may fail in the database (QueryError).  The snapshot is never *)
(* written; the clock advances between runs.                               *)
(***************************************************************************)
MaxClock == 1

MaxRuns == 2

\* disconnect() with its test dropped: nothing is closed.
CloseConnection_Skip(conn) == conn

\* disconnect(): close the connection if there is one.
CloseConnection(conn) == IF conn = "open" THEN "closed" ELSE conn

\* A failed step that does not stop the run.
AfterStep_Continue(err, next) == next

\* Inside try/finally with no except: an exception skips the rest of the
\* try body and control goes to the finally block.
AfterStep(err, next) == IF err = "none" THEN next ELSE "finally"

HealthyClaim ==
    ClaimRow(1, 1, "SUBMITTED", 100, Val(100), Val(50), Val(20), Today - 100,
             Val(Today - 95))

ZeroAllowedClaim ==
    ClaimRow(1, 1, "PAID", 100, Val(0), Val(50), NULL, Today - 100, Val(Today - 2))

UnpaidClaim ==
    ClaimRow(1, 1, "SUBMITTED", 100, NULL, Val(0), NULL, Today - 100, NULL)

RunClaimTables == {<<>>, <<HealthyClaim>>, <<ZeroAllowedClaim>>, <<UnpaidClaim>>}

RunWindows == {<<Today - 100, Today>>, <<Today - 100, Today - 100>>}

\* a denials of the first kind (not appealed), b of the sixth (appealed).
DenialCounts(a, b) ==
    [k \in 0..(DenialKinds - 1) |-> IF k = 0 THEN a ELSE IF k = 5 THEN b ELSE 0]

RunDenialTables ==
    {DenialsFrom(DenialCounts(0, 0), 0, 1),
     DenialsFrom(DenialCounts(5, 0), 0, 1),
     DenialsFrom(DenialCounts(5, 5), 0, 1)}

GoodPayer == PayerRow("Acme", 100, Val(100), Val(96), 4, Val(200), 90)

SlowPayer == PayerRow("Medicare", 200, Val(100), Val(80), 30, NULL, 10)

RunPayerMetrics == {<<>>, <<GoodPayer>>, <<SlowPayer>>, <<GoodPayer, SlowPayer>>}

RunEncounterTables == {<<>>, <<EncounterRow(1, 1)>>}

RunInit ==
    /\ claims \in RunClaimTables
    /\ \E w \in RunWindows : start_date = w[1] /\ end_date = w[2]
    /\ denials \in RunDenialTables
    /\ payers = PayerTable
    /\ payer_metrics \in RunPayerMetrics
    /\ encounters \in RunEncounterTables
    /\ pc = "start"
    /\ clock = 0
    /\ connection = "None"
    /\ patterns = NoRows
    /\ leakage = NoLeakage
    /\ scorecards = NoRows
    /\ summary = NoSummary
    /\ raised = "none"
    /\ trail = <<>>
    /\ output = <<>>
    /\ history = <<>>
    /\ metrics = NoMetrics

Snapshot == <<claims, denials, encounters, payers, payer_metrics, start_date, end_date>>

\* Time passes before a run starts.
Tick ==
    /\ pc = "start"
    /\ clock < MaxClock
    /\ clock' = clock + 1
    /\ UNCHANGED <<Snapshot, pc, connection, metrics, patterns, leakage,
                   scorecards, summary, raised, trail, output, history>>

\* connect(): psycopg2.connect succeeds, or its exception is re-raised and
\* leaves generate_executive_summary before the try.
Connect ==
    /\ pc = "start"
    /\ \/ /\ connection' = "open"
          /\ pc' = "metrics"
          /\ trail' = Append(trail, Did("connect", TRUE))
          /\ UNCHANGED raised
       \/ /\ raised' = "ConnectionError"
          /\ pc' = "failed"
          /\ trail' = Append(trail, Did("connect", FALSE))
          /\ UNCHANGED connection
    /\ UNCHANGED <<Snapshot, clock, metrics, patterns, leakage, scorecards,
                   summary, output, history>>

RunMetrics ==
    /\ pc = "metrics"
    /\ \E dbfail \in BOOLEAN :
          LET r == IF dbfail THEN [raised |-> "QueryError", value |-> NoMetrics]
                   ELSE CalculateRevenueMetrics(claims, start_date, end_date)
          IN  /\ metrics' = r.value
              /\ raised' = r.raised
              /\ pc' = AfterStep(r.raised, "denials")
              /\ trail' = Append(trail, Did("metrics", r.raised = "none"))
    /\ UNCHANGED <<Snapshot, clock, connection, patterns, leakage, scorecards,
                   summary, output, history>>

RunDenials ==
    /\ pc = "denials"
    /\ \E dbfail \in BOOLEAN :
          /\ raised' = IF dbfail THEN "QueryError" ELSE "none"
          /\ patterns' = IF dbfail THEN NoRows
                         ELSE AnalyzeDenialPatterns(denials, claims, payers,
                                                    DefaultLookbackMonths)
          /\ pc' = AfterStep(raised', "leakage")
          /\ trail' = Append(trail, Did("denials", ~dbfail))
    /\ UNCHANGED <<Snapshot, clock, connection, metrics, leakage, scorecards,
                   summary, output, history>>

\* Three queries in a row; the first that fails ends the method.
RunLeakage ==
    /\ pc = "leakage"
    /\ \E dbfail \in BOOLEAN :
          /\ raised' = IF dbfail THEN "QueryError" ELSE "none"
          /\ leakage' = IF dbfail THEN NoLeakage
                        ELSE IdentifyRevenueLeakage(encounters, claims, payers)
          /\ pc' = AfterStep(raised', "payers")
          /\ trail' = Append(trail, Did("leakage", ~dbfail))
    /\ UNCHANGED <<Snapshot, clock, connection, metrics, patterns, scorecards,
                   summary, output, history>>

RunPayers ==
    /\ pc = "payers"
    /\ \E dbfail \in BOOLEAN :
          /\ raised' = IF dbfail THEN "QueryError" ELSE "none"
          /\ scorecards' = IF dbfail THEN NoRows
                           ELSE PayerPerformanceAnalysis(payer_metrics)
          /\ pc' = AfterStep(raised', "compose")
          /\ trail' = Append(trail, Did("payers", ~dbfail))
    /\ UNCHANGED <<Snapshot, clock, connection, metrics, patterns, leakage,
                   summary, output, history>>

\* The f-strings: the text, or the TypeError of the first field that
\* cannot be formatted.
Compose ==
    /\ pc = "compose"
    /\ LET lines == SummaryLines(metrics, patterns, leakage, scorecards,
                                 start_date, end_date, clock)
       IN  /\ raised' = IF Raises(lines) THEN "TypeError" ELSE "none"
           /\ summary' = IF Raises(lines) THEN NoSummary ELSE lines
           /\ trail' = Append(trail, Did("compose", ~Raises(lines)))
    /\ pc' = "finally"
    /\ UNCHANGED <<Snapshot, clock, connection, metrics, patterns, leakage,
                   scorecards, output, history>>

\* finally: self.disconnect(); then the return or the pending exception.
Disconnect ==
    /\ pc = "finally"
    /\ connection' = CloseConnection(connection)
    /\ pc' = IF raised = "none" THEN "returned" ELSE "failed"
    /\ trail' = Append(trail, Did("disconnect", TRUE))
    /\ UNCHANGED <<Snapshot, clock, metrics, patterns, leakage, scorecards,
                   summary, raised, output, history>>

\* main: print(summary)
MainPrint ==
    /\ pc = "returned"
    /\ output' = Append(output, [sink |-> "stdout", text |-> summary])
    /\ pc' = "printed"
    /\ trail' = Append(trail, Did("print", TRUE))
    /\ UNCHANGED <<Snapshot, clock, connection, metrics, patterns, leakage,
                   scorecards, summary, raised, history>>

\* main: open('outputs/executive_summary.txt', 'w') and write, or OSError.
MainWrite ==
    /\ pc = "printed"
    /\ \/ /\ output' = Append(output, [sink |-> "file", text |-> summary])
          /\ pc' = "done"
          /\ trail' = Append(trail, Did("write", TRUE))
          /\ UNCHANGED raised
       \/ /\ raised' = "OSError"
          /\ pc' = "failed"
          /\ trail' = Append(trail, Did("write", FALSE))
          /\ UNCHANGED output
    /\ UNCHANGED <<Snapshot, clock, connection, metrics, patterns, leakage,
                   scorecards, summary, history>>

\* What the f-strings read.
ComposeInputs ==
    <<metrics, Head5(patterns), leakage, Head5(scorecards), start_date, end_date>>

\* The program is started again on the same snapshot: a new analyzer.
Rerun ==
    /\ pc = "done"
    /\ Len(history) + 1 < MaxRuns
    /\ history' = Append(history, [summary |-> summary, inputs |-> ComposeInputs])
    /\ pc' = "start"
    /\ connection' = "None"
    /\ metrics' = NoMetrics
    /\ patterns' = NoRows
    /\ leakage' = NoLeakage
    /\ scorecards' = NoRows
    /\ summary' = NoSummary
    /\ raised' = "none"
    /\ trail' = <<>>
    /\ output' = <<>>
    /\ UNCHANGED <<Snapshot, clock>>

Next ==
    \/ Tick
    \/ Connect
    \/ RunMetrics
    \/ RunDenials
    \/ RunLeakage
    \/ RunPayers
    \/ Compose
    \/ Disconnect
    \/ MainPrint
    \/ MainWrite
    \/ Rerun

Spec == RunInit /\ [][Next]_vars


(***************************************************************************)
(* Claims about the whole run (checked under Spec).                        *)
(***************************************************************************)
\* generate_executive_summary has been left, by return or by exception.
Left == pc \in {"returned", "printed", "done", "failed"}

Steps == {trail[i].step : i \in 1..Len(trail)}

Succeeded(step) == \E i \in 1..Len(trail) : trail[i] = Did(step, TRUE)

Failed(step) == \E i \in 1..Len(trail) : trail[i] = Did(step, FALSE)

Analyses == {"metrics", "denials", "leakage", "payers"}

\* C1: once connect() has succeeded, every way out of
\* generate_executive_summary (return, or an exception of an analysis or
\* of the formatting) goes through disconnect(): no run ends with the
\* connection open.
C1_ConnectionReleased ==
    (Left /\ Succeeded("connect")) =>
        /\ connection = "closed"
        /\ Succeeded("disconnect")

\* The formatting raised after all four analyses had returned, and the
\* connection was closed on the way out.
C1_Witness ==
    /\ pc = "failed"
    /\ Succeeded("connect")
    /\ Failed("compose")
    /\ raised = "TypeError"
    /\ connection = "closed"

ProgramOrder ==
    <<"connect", "metrics", "denials", "leakage", "payers", "compose",
      "disconnect", "print", "write">>

Position(step) == CHOOSE n \in 1..Len(ProgramOrder) : ProgramOrder[n] = step

\* C2: the steps run once each in program order; after a failed connect or
\* analysis no later analysis runs, the error reaches the caller, and no
\* text is returned, printed or written; a text exists only when all four
\* analyses returned.
C2_NoPartialSuccessNoRetry ==
    /\ \A i, j \in 1..Len(trail) :
           i < j => Position(trail[i].step) < Position(trail[j].step)
    /\ \A i \in 1..Len(trail) :
           (~trail[i].ok /\ trail[i].step \in Analyses \cup {"connect"}) =>
               /\ \A j \in (i + 1)..Len(trail) : trail[j].step = "disconnect"
               /\ raised # "none"
               /\ pc \in {"finally", "failed"}
               /\ summary = NoSummary
               /\ output = <<>>
    /\ (summary # NoSummary \/ output # <<>>) =>
           \A a \in Analyses : Succeeded(a)
    /\ \A i \in 1..Len(output) : output[i].text = summary /\ summary # NoSummary

\* The third analysis failed: the fourth never ran, nothing was produced,
\* and the exception left main.
C2_Witness ==
    /\ pc = "failed"
    /\ Succeeded("metrics") /\ Succeeded("denials")
    /\ Failed("leakage")
    /\ "payers" \notin Steps
    /\ raised = "QueryError"
    /\ summary = NoSummary /\ output = <<>>

\* Some numeric field the report prints is absent: None or NaN.
AbsentValuePrinted ==
    \/ metrics.kind = "empty"
    \/ /\ metrics.kind = "mapping"
       /\ \E f \in {"total_charges", "total_payments", "net_collection_rate",
                    "gross_collection_rate", "avg_days_to_payment", "total_ar",
                    "ar_over_90", "ar_over_90_pct", "days_in_ar"} :
              metrics.m[f].k # "num"
    \/ \E i \in 1..Len(patterns) : patterns[i].appeal_success_rate.k # "num"
    \/ \E i \in 1..Len(scorecards) : scorecards[i].avg_days_to_payment.k # "num"

\* C6 as stated: whatever mapping calculate_revenue_metrics returned (empty,
\* or with None fields) and whatever null rates the denial and payer rows
\* carry, the composition completes and prints a text.
C6_CompositionToleratesAbsent ==
    ("compose" \in Steps /\ AbsentValuePrinted) =>
        /\ raised # "TypeError"
        /\ summary # NoSummary

\* The document without its "Generated:" line.
WithoutGenerated(lines) ==
    LET Keep(l) == l.label # "Generated" IN SelectSeq(lines, Keep)

\* C10 as stated: two runs over the same snapshot and window produce
\* identical documents.
C10_SameDocument ==
    pc = "done" => \A i \in 1..Len(history) : history[i].summary = summary

\* C10 amended: two runs whose analyses returned the same results over the
\* same window produce documents that differ at most in the "Generated:"
\* line, which carries the time of the run.
C10_SameDocumentButTimestamp ==
    pc = "done" =>
        \A i \in 1..Len(history) :
            history[i].inputs = ComposeInputs =>
                /\ WithoutGenerated(history[i].summary) = WithoutGenerated(summary)
                /\ Shown(history[i].summary, "Generated") = Shown(summary, "Generated")
                   => history[i].summary = summary

\* Two completed runs over the same results, a second apart: the documents
\* differ, with denial and payer lines in them.
C10_Witness ==
    /\ pc = "done"
    /\ Len(history) = 1
    /\ history[1].inputs = ComposeInputs
    /\ history[1].summary # summary
    /\ Len(patterns) = 2
    /\ Len(scorecards) = 1


====
